---- MODULE Spec2Model ----
(***************************************************************************)
(* Model of main.py of Box-ArcGIS: a FastAPI service that passes file      *)
(* upload / delete / restore through to Box, and handles the Box webhook:  *)
(* verify the signature, then download every uploaded file and extract    *)
(* its EXIF GPS position.                                                  *)
(*                                                                         *)
(* Two specifications share the module:                                    *)
(*   Spec    - the HTTP handlers (one request at a time: the handlers run  *)
(*             on one event loop and never await after reading the body).  *)
(*   SpecGps - the pure functions get_lat_lon / convert_to_degrees applied *)
(*             to a tag mapping drawn from a bounded set.                  *)
(*                                                                         *)
(* Python values.  A call either returns or raises; its outcome is         *)
(* Return(v) or Raise(exc).  A float is modelled by the exact rational it  *)
(* stands for, <<numerator, denominator>> in lowest terms (binary rounding *)
(* is not modelled).  None is `None` where a float is expected and         *)
(* `NoneStr` where a str is expected.  A dict or list of the JSON payload  *)
(* is a tagged record that keeps the order of its items, as Python does.   *)
(***************************************************************************)
EXTENDS Integers, Sequences, FiniteSets, TLC

VARIABLES
    secret,         \* BOX_WEBHOOK_SECRET, read from the environment at import
    pc,             \* where the server is: "idle", "webhook_loop", "done"
    route,          \* the route of the request being handled
    request,        \* the request being handled
    payload,        \* handle_box_webhook: the parsed body
    verified,       \* handle_box_webhook: outcome of verify_signature
    idx,            \* handle_box_webhook: number of events already iterated
    downloads,      \* URLs passed to requests.get, in call order
    log,            \* lines printed by download_and_process_file
    providerCalls,  \* calls made on the Box client by upload/delete/restore
    providerFailed, \* whether the Box client call of this request raised
    response,       \* the HTTP response of the request
    exif_data,      \* SpecGps: the tag mapping given to get_lat_lon
    latlon          \* SpecGps: the outcome of get_lat_lon(exif_data)

vars == <<secret, pc, route, request, payload, verified, idx, downloads, log,
          providerCalls, providerFailed, response, exif_data, latlon>>

httpVars == <<secret, pc, route, request, payload, verified, idx, downloads,
              log, providerCalls, providerFailed, response>>

gpsVars == <<exif_data, latlon>>

(***************************************************************************)
(* Bounds                                                                  *)
(***************************************************************************)
MaxDeg == 1
MaxMin == 1
MaxSec == 1
MaxEvents == 3

(***************************************************************************)
(* Python outcomes and None                                                *)
(***************************************************************************)
Return(v) == [kind |-> "return", value |-> v]
Raise(e) == [kind |-> "raise", exc |-> e]
NotCalled == [kind |-> "not called"]

None == <<>>
NoneStr == "<None>"

(***************************************************************************)
(* Exact rational arithmetic, standing for Python float arithmetic         *)
(***************************************************************************)
RECURSIVE Gcd(_, _)
Gcd(a, b) == IF b = 0 THEN a ELSE Gcd(b, a % b)

Abs(n) == IF n < 0 THEN 0 - n ELSE n

RatNorm(r) ==
    LET g == Gcd(Abs(r[1]), r[2])
    IN  <<r[1] \div g, r[2] \div g>>

RatAdd(a, b) == RatNorm(<<a[1] * b[2] + b[1] * a[2], a[2] * b[2]>>)
RatSub(a, b) == RatNorm(<<a[1] * b[2] - b[1] * a[2], a[2] * b[2]>>)
RatDiv(a, k) == RatNorm(<<a[1], a[2] * k>>)
RatOfInt(n) == <<n, 1>>

\* float(x) of an EXIF rational x = n/d: the number n/d
Float(x) == RatNorm(x)

(***************************************************************************)
(* convert_to_degrees, get_lat_lon                                         *)
(***************************************************************************)
ConvertToDegreesBadMinutes(value) ==
    LET d == Float(value[1])
        m == Float(value[2])
        s == Float(value[3])
    IN  RatAdd(RatAdd(d, RatDiv(m, 3600)), RatDiv(s, 3600))

ConvertToDegrees(value) ==
    LET d == Float(value[1])
        m == Float(value[2])
        s == Float(value[3])
    IN  RatAdd(RatAdd(d, RatDiv(m, 60)), RatDiv(s, 3600))

GetLatLonWhitelist(exif) ==
    IF "GPSInfo" \in DOMAIN exif
    THEN LET gps_info == exif["GPSInfo"]
         IN  IF "GPSLatitude" \notin DOMAIN gps_info THEN Raise("KeyError")
             ELSE IF "GPSLatitudeRef" \notin DOMAIN gps_info THEN Raise("KeyError")
             ELSE IF "GPSLongitude" \notin DOMAIN gps_info THEN Raise("KeyError")
             ELSE IF "GPSLongitudeRef" \notin DOMAIN gps_info THEN Raise("KeyError")
             ELSE LET lat0 == ConvertToDegrees(gps_info["GPSLatitude"])
                      lat == IF gps_info["GPSLatitudeRef"] = "S"
                             THEN RatSub(RatOfInt(0), lat0) ELSE lat0
                      lon0 == ConvertToDegrees(gps_info["GPSLongitude"])
                      lon == IF gps_info["GPSLongitudeRef"] = "W"
                             THEN RatSub(RatOfInt(0), lon0) ELSE lon0
                  IN  Return(<<lat, lon>>)
    ELSE Return(<<None, None>>)

GetLatLonPartial(exif) ==
    IF "GPSInfo" \in DOMAIN exif
    THEN LET gps_info == exif["GPSInfo"]
         IN  IF "GPSLatitude" \notin DOMAIN gps_info THEN Return(<<None, None>>)
             ELSE IF "GPSLatitudeRef" \notin DOMAIN gps_info THEN Raise("KeyError")
             ELSE LET lat0 == ConvertToDegrees(gps_info["GPSLatitude"])
                      lat == IF gps_info["GPSLatitudeRef"] # "N"
                             THEN RatSub(RatOfInt(0), lat0) ELSE lat0
                  IN  IF "GPSLongitude" \notin DOMAIN gps_info
                         \/ "GPSLongitudeRef" \notin DOMAIN gps_info
                      THEN Return(<<lat, None>>)
                      ELSE LET lon0 == ConvertToDegrees(gps_info["GPSLongitude"])
                               lon == IF gps_info["GPSLongitudeRef"] # "E"
                                      THEN RatSub(RatOfInt(0), lon0) ELSE lon0
                           IN  Return(<<lat, lon>>)
    ELSE Return(<<None, None>>)

\* A dict lookup d[k] raises KeyError when k is not a key of d; the four
\* lookups of lines 57-60 happen in this order, before any conversion.
GetLatLon(exif) ==
    IF "GPSInfo" \in DOMAIN exif
    THEN LET gps_info == exif["GPSInfo"]
         IN  IF "GPSLatitude" \notin DOMAIN gps_info THEN Raise("KeyError")
             ELSE IF "GPSLatitudeRef" \notin DOMAIN gps_info THEN Raise("KeyError")
             ELSE IF "GPSLongitude" \notin DOMAIN gps_info THEN Raise("KeyError")
             ELSE IF "GPSLongitudeRef" \notin DOMAIN gps_info THEN Raise("KeyError")
             ELSE LET gps_latitude == gps_info["GPSLatitude"]
                      gps_latitude_ref == gps_info["GPSLatitudeRef"]
                      gps_longitude == gps_info["GPSLongitude"]
                      gps_longitude_ref == gps_info["GPSLongitudeRef"]
                      lat0 == ConvertToDegrees(gps_latitude)
                      lat == IF gps_latitude_ref # "N"
                             THEN RatSub(RatOfInt(0), lat0) ELSE lat0
                      lon0 == ConvertToDegrees(gps_longitude)
                      lon == IF gps_longitude_ref # "E"
                             THEN RatSub(RatOfInt(0), lon0) ELSE lon0
                  IN  Return(<<lat, lon>>)
    ELSE Return(<<None, None>>)

(***************************************************************************)
(* Tag mappings (the result of get_exif_data)                              *)
(***************************************************************************)
GpsKeys == {"GPSLatitude", "GPSLatitudeRef", "GPSLongitude", "GPSLongitudeRef"}

SecDens == {1, 100}

\* EXIF rationals n/d
Degrees == {<<n, 1>> : n \in 0..MaxDeg}
Minutes == {<<n, 1>> : n \in 0..MaxMin}
Seconds == {<<n, d>> : n \in 0..MaxSec, d \in SecDens}
Triples == {<<d, m, s>> : d \in Degrees, m \in Minutes, s \in Seconds}

LatRefs == {"N", "S", "n", ""}
LonRefs == {"E", "W", "e", ""}

\* "key not in the dict", for building the sub-blocks below
AbsentTriple == <<>>
AbsentRef == "<absent>"

GpsBlock(lat, latRef, lon, lonRef) ==
    LET present == {k \in GpsKeys :
                      \/ k = "GPSLatitude" /\ lat # AbsentTriple
                      \/ k = "GPSLatitudeRef" /\ latRef # AbsentRef
                      \/ k = "GPSLongitude" /\ lon # AbsentTriple
                      \/ k = "GPSLongitudeRef" /\ lonRef # AbsentRef}
    IN  [k \in present |->
            CASE k = "GPSLatitude" -> lat
              [] k = "GPSLatitudeRef" -> latRef
              [] k = "GPSLongitude" -> lon
              [] k = "GPSLongitudeRef" -> lonRef]

ExifWith(gps, hasMake) ==
    IF hasMake THEN [GPSInfo |-> gps, Make |-> "Canon"] ELSE [GPSInfo |-> gps]

ExifWithout(hasMake) ==
    IF hasMake THEN [Make |-> "Canon"] ELSE [k \in {} |-> None]

HasGps(exif) == "GPSInfo" \in DOMAIN exif
Complete(exif) == HasGps(exif) /\ DOMAIN exif["GPSInfo"] = GpsKeys

(***************************************************************************)
(* Python values of the JSON payload, str() and the JSON text              *)
(***************************************************************************)
PStr(s) == [t |-> "str", s |-> s]
PList(elems) == [t |-> "list", elems |-> elems]
PDict(items) == [t |-> "dict", items |-> items]    \* items: <<key, value>>, in order

RECURSIVE PyRepr(_)
RECURSIVE PyReprElems(_)
RECURSIVE PyReprItems(_)
\* repr(): strings in single quotes, ", " between items, ": " after a key
PyRepr(v) ==
    CASE v.t = "str" -> "'" \o v.s \o "'"
      [] v.t = "list" -> "[" \o PyReprElems(v.elems) \o "]"
      [] v.t = "dict" -> "{" \o PyReprItems(v.items) \o "}"

PyReprElems(es) ==
    IF es = <<>> THEN ""
    ELSE IF Len(es) = 1 THEN PyRepr(es[1])
    ELSE PyRepr(es[1]) \o ", " \o PyReprElems(Tail(es))

PyReprItems(its) ==
    IF its = <<>> THEN ""
    ELSE LET one == "'" \o its[1][1] \o "': " \o PyRepr(its[1][2])
         IN  IF Len(its) = 1 THEN one ELSE one \o ", " \o PyReprItems(Tail(its))

\* str(v): the text itself for a str, repr(v) for a list or a dict
PyStr(v) == IF v.t = "str" THEN v.s ELSE PyRepr(v)

\* The JSON text of a value as a sender writes it: strings in double quotes,
\* the separators as the sender's serializer puts them.
Compact == [item |-> ",", key |-> ":"]
Spaced == [item |-> ", ", key |-> ": "]
Styles == {Compact, Spaced}

RECURSIVE JsonText(_, _)
RECURSIVE JsonElems(_, _)
RECURSIVE JsonItems(_, _)
JsonText(v, st) ==
    CASE v.t = "str" -> "\"" \o v.s \o "\""
      [] v.t = "list" -> "[" \o JsonElems(v.elems, st) \o "]"
      [] v.t = "dict" -> "{" \o JsonItems(v.items, st) \o "}"

JsonElems(es, st) ==
    IF es = <<>> THEN ""
    ELSE IF Len(es) = 1 THEN JsonText(es[1], st)
    ELSE JsonText(es[1], st) \o st.item \o JsonElems(Tail(es), st)

JsonItems(its, st) ==
    IF its = <<>> THEN ""
    ELSE LET one == "\"" \o its[1][1] \o "\"" \o st.key \o JsonText(its[1][2], st)
         IN  IF Len(its) = 1 THEN one ELSE one \o st.item \o JsonItems(Tail(its), st)

(***************************************************************************)
(* The requests drawn: webhook bodies and signatures                       *)
(***************************************************************************)
EventTypes == {"UPLOAD", "upload", "DELETE"}
FileIds == {"1", "2"}

Event(type, id) ==
    PDict(<< <<"event_type", PStr(type)>>,
             <<"source", PDict(<< <<"id", PStr(id)>> >>)>> >>)

\* an event with no source object
EventNoSource == PDict(<< <<"event_type", PStr("UPLOAD")>> >>)

Events == {Event(type, id) : type \in EventTypes, id \in FileIds} \cup {EventNoSource}

RECURSIVE SeqsUpTo(_, _)
SeqsUpTo(S, n) ==
    IF n = 0 THEN {<<>>}
    ELSE LET shorter == SeqsUpTo(S, n - 1)
         IN  shorter \cup {Append(q, e) : q \in shorter, e \in S}

Envelope(events) == PDict(<< <<"events", PList(events)>> >>)

JsonValues ==
    {Envelope(es) : es \in SeqsUpTo(Events, MaxEvents)}
        \cup {PDict(<<>>), PList(<<>>)}

\* every JSON text drawn, with the value it denotes
JsonTexts == {<<JsonText(v, st), v>> : v \in JsonValues, st \in Styles}
ParseTable ==
    [text \in {p[1] : p \in JsonTexts} |-> (CHOOSE p \in JsonTexts : p[1] = text)[2]]

NotJson == "events=[]"
Bodies == DOMAIN ParseTable \cup {NotJson}

\* json.loads: the value whose JSON text the body is; JSONDecodeError if none
JsonLoads(body) ==
    IF body \in DOMAIN ParseTable THEN Return(ParseTable[body])
    ELSE Raise("JSONDecodeError")

\* hexdigest of HMAC-SHA256: an ideal keyed hash, one digest per (key, message)
HexDigest(key, msg) == "hmac-sha256[" \o key \o "][" \o msg \o "]"

SharedSecret == "s3cret"
Secrets == {NoneStr, "", SharedSecret}   \* os.getenv: unset, set empty, set

\* a Box-Signature header holding a byte above 0x7f
NonAsciiSignature == "<non-ascii>"
IsAscii(s) == s # NonAsciiSignature

\* What a sender may put in Box-Signature for a body: nothing, garbage, the
\* digest of the bytes sent, or the digest of str() of the parsed body.
SenderKeys == {"", SharedSecret}
Signatures(body) ==
    {NoneStr, "deadbeef", NonAsciiSignature}
        \cup {HexDigest(k, body) : k \in SenderKeys}
        \cup (IF JsonLoads(body).kind = "return"
              THEN {HexDigest(k, PyStr(JsonLoads(body).value)) : k \in SenderKeys}
              ELSE {})

(***************************************************************************)
(* verify_signature                                                        *)
(***************************************************************************)
\* hmac.compare_digest(a, b): TypeError unless both are ASCII str
CompareDigest(a, b) ==
    IF b = NoneStr THEN Raise("TypeError")
    ELSE IF ~IsAscii(b) THEN Raise("TypeError")
    ELSE Return(a = b)

\* verify_signature(payload, signature): the handler passes the parsed body,
\* and str(payload) is what gets hashed.  None.encode() raises AttributeError.
VerifySignature(pl, signature) ==
    IF secret = NoneStr THEN Raise("AttributeError")
    ELSE LET expected_signature == HexDigest(secret, PyStr(pl))
         IN  CompareDigest(expected_signature, signature)

(***************************************************************************)
(* get_exif_data, download_and_process_file                                *)
(***************************************************************************)
\* PIL.ExifTags.TAGS / GPSTAGS, restricted to the tags the images below carry
TAGS == [tag \in {271, 34853} |-> IF tag = 271 THEN "Make" ELSE "GPSInfo"]
GPSTAGS ==
    [tag \in 1..4 |->
        CASE tag = 1 -> "GPSLatitudeRef"
          [] tag = 2 -> "GPSLatitude"
          [] tag = 3 -> "GPSLongitudeRef"
          [] tag = 4 -> "GPSLongitude"]

\* image._getexif() gave `info`: None, or numeric tag -> value
GetExifData(info) ==
    IF info = None THEN [k \in {} |-> None]
    ELSE [name \in {TAGS[tag] : tag \in DOMAIN info} |->
            LET tag == CHOOSE t \in DOMAIN info : TAGS[t] = name
                value == info[tag]
            IN  IF name = "GPSInfo"
                THEN [gname \in {GPSTAGS[g] : g \in DOMAIN value} |->
                        value[CHOOSE g \in DOMAIN value : GPSTAGS[g] = gname]]
                ELSE value]

PlaceLat == <<<<1, 1>>, <<1, 1>>, <<1, 100>>>>
PlaceLon == <<<<0, 1>>, <<1, 1>>, <<0, 1>>>>

InfoMake == [tag \in {271} |-> "Canon"]
InfoGps == [tag \in {34853} |->
              [g \in 1..4 |-> CASE g = 1 -> "N" [] g = 2 -> PlaceLat
                                [] g = 3 -> "W" [] g = 4 -> PlaceLon]]
InfoGpsNoRef == [tag \in {34853} |-> [g \in {2, 4} |-> IF g = 2 THEN PlaceLat ELSE PlaceLon]]

\* What requests.get and Image.open meet for one download
Fetches ==
    { [get |-> "ConnectionError"],           \* requests.get raises
      [get |-> "HTTPError"],                 \* raise_for_status raises
      [get |-> "ok", image |-> "unreadable"],\* Image.open raises
      [get |-> "ok", image |-> "png"] }      \* no _getexif attribute
    \cup {[get |-> "ok", image |-> "jpeg", info |-> i] :
             i \in {None, InfoMake, InfoGps, InfoGpsNoRef}}

ErrorLine(exc) == [msg |-> "Error downloading or processing file", exc |-> exc]

DownloadAndProcessFileUncaught(fetch) ==
    IF fetch.get # "ok" THEN Raise(fetch.get)
    ELSE IF fetch.image = "unreadable" THEN Raise("UnidentifiedImageError")
    ELSE Return([msg |-> "No latitude/longitude found"])

\* download_and_process_file: the line it prints; `except Exception` turns
\* every failure inside the try block into an error line, so it returns.
DownloadAndProcessFile(fetch) ==
    IF fetch.get # "ok" THEN Return(ErrorLine(fetch.get))
    ELSE IF fetch.image = "unreadable" THEN Return(ErrorLine("UnidentifiedImageError"))
    ELSE IF fetch.image = "png" THEN Return(ErrorLine("AttributeError"))
    ELSE LET r == GetLatLon(GetExifData(fetch.info))
         IN  IF r.kind = "raise" THEN Return(ErrorLine(r.exc))
             ELSE IF r.value[1] # None /\ r.value[2] # None
                  THEN Return([msg |-> "Latitude, Longitude",
                               latitude |-> r.value[1], longitude |-> r.value[2]])
                  ELSE Return([msg |-> "No latitude/longitude found"])

(***************************************************************************)
(* The HTTP handlers                                                       *)
(***************************************************************************)
NoRequest == [body |-> "", signature |-> NoneStr]
NoResponse == [status |-> 0, body |-> "", unhandled |-> FALSE]
Json200(text) == [status |-> 200, body |-> text, unhandled |-> FALSE]
Http401 == [status |-> 401, body |-> "Unauthorized", unhandled |-> FALSE]
\* an exception that leaves the handler: the server answers 500
Unhandled(exc) == [status |-> 500, body |-> exc, unhandled |-> TRUE]

\* v[key] on a payload value
Subscript(v, key) ==
    IF v.t # "dict" THEN Raise("TypeError")
    ELSE IF \E i \in 1..Len(v.items) : v.items[i][1] = key
    THEN Return(v.items[CHOOSE i \in 1..Len(v.items) : v.items[i][1] = key][2])
    ELSE Raise("KeyError")

DownloadUrl(file_id) == "https://api.box.com/2.0/files/" \o PyStr(file_id) \o "/content"

Init ==
    /\ secret \in Secrets
    /\ pc = "idle"
    /\ route = "none"
    /\ request = NoRequest
    /\ payload = NotCalled
    /\ verified = NotCalled
    /\ idx = 0
    /\ downloads = <<>>
    /\ log = <<>>
    /\ providerCalls = 0
    /\ providerFailed = FALSE
    /\ response = NoResponse
    /\ exif_data = [k \in {} |-> None]
    /\ latlon = NotCalled

\* handle_box_webhook, lines 187-190: parse the body, verify, reject
WebhookVerify ==
    /\ pc = "idle"
    /\ \E body \in Bodies : \E signature \in Signatures(body) :
        LET parsed == JsonLoads(body)
            v == IF parsed.kind = "return"
                 THEN VerifySignature(parsed.value, signature)
                 ELSE NotCalled
        IN  /\ route' = "/webhook/box"
            /\ request' = [body |-> body, signature |-> signature]
            /\ payload' = parsed
            /\ verified' = v
            /\ IF parsed.kind = "raise"
               THEN pc' = "done" /\ response' = Unhandled(parsed.exc)
               ELSE IF v.kind = "raise"
               THEN pc' = "done" /\ response' = Unhandled(v.exc)
               ELSE IF ~v.value
               THEN pc' = "done" /\ response' = Http401
               ELSE pc' = "webhook_loop" /\ response' = NoResponse
    /\ UNCHANGED <<secret, idx, downloads, log, providerCalls, providerFailed, gpsVars>>

\* handle_box_webhook, line 192: payload['events'] raises
WebhookNoEvents ==
    /\ pc = "webhook_loop"
    /\ Subscript(payload.value, "events").kind = "raise"
    /\ pc' = "done"
    /\ response' = Unhandled(Subscript(payload.value, "events").exc)
    /\ UNCHANGED <<secret, route, request, payload, verified, idx, downloads, log,
                   providerCalls, providerFailed, gpsVars>>

EventsOf(pl) == Subscript(pl, "events").value.elems

\* handle_box_webhook, lines 192-196: one iteration of the loop
WebhookEvent ==
    /\ pc = "webhook_loop"
    /\ Subscript(payload.value, "events").kind = "return"
    /\ idx < Len(EventsOf(payload.value))
    /\ LET event == EventsOf(payload.value)[idx + 1]
           type == Subscript(event, "event_type")
           source == Subscript(event, "source")
       IN  IF type.kind = "raise"
           THEN /\ pc' = "done" /\ response' = Unhandled(type.exc)
                /\ UNCHANGED <<idx, downloads, log>>
           ELSE IF type.value # PStr("UPLOAD")
           THEN /\ idx' = idx + 1
                /\ UNCHANGED <<pc, response, downloads, log>>
           ELSE IF source.kind = "raise"
           THEN /\ pc' = "done" /\ response' = Unhandled(source.exc)
                /\ UNCHANGED <<idx, downloads, log>>
           ELSE IF Subscript(source.value, "id").kind = "raise"
           THEN /\ pc' = "done"
                /\ response' = Unhandled(Subscript(source.value, "id").exc)
                /\ UNCHANGED <<idx, downloads, log>>
           ELSE \E fetch \in Fetches :
                LET file_id == Subscript(source.value, "id").value
                    r == DownloadAndProcessFile(fetch)
                IN  /\ downloads' = Append(downloads, DownloadUrl(file_id))
                    /\ IF r.kind = "raise"
                       THEN /\ pc' = "done" /\ response' = Unhandled(r.exc)
                            /\ UNCHANGED <<idx, log>>
                       ELSE /\ log' = Append(log, r.value)
                            /\ idx' = idx + 1
                            /\ UNCHANGED <<pc, response>>
    /\ UNCHANGED <<secret, route, request, payload, verified, providerCalls,
                   providerFailed, gpsVars>>

\* handle_box_webhook, line 198
WebhookReturn ==
    /\ pc = "webhook_loop"
    /\ Subscript(payload.value, "events").kind = "return"
    /\ idx = Len(EventsOf(payload.value))
    /\ pc' = "done"
    /\ response' = Json200("success")
    /\ UNCHANGED <<secret, route, request, payload, verified, idx, downloads, log,
                   providerCalls, providerFailed, gpsVars>>

\* upload_file: box_folder.upload is outside any try block
UploadFileResponse(ok) ==
    IF ok THEN Json200("filename, id") ELSE Unhandled("BoxAPIException")

UploadFile ==
    /\ pc = "idle"
    /\ \E ok \in BOOLEAN :
        /\ providerCalls' = providerCalls + 1
        /\ providerFailed' = ~ok
        /\ response' = UploadFileResponse(ok)
    /\ route' = "/upload-file/"
    /\ pc' = "done"
    /\ UNCHANGED <<secret, request, payload, verified, idx, downloads, log, gpsVars>>

\* delete_file / restore_file: the call is inside try ... except Exception
DeleteFileResponse(ok) ==
    IF ok THEN Json200("File deleted successfully") ELSE Json200("Error")

DeleteFile ==
    /\ pc = "idle"
    /\ \E ok \in BOOLEAN :
        /\ providerCalls' = providerCalls + 1
        /\ providerFailed' = ~ok
        /\ response' = DeleteFileResponse(ok)
    /\ route' = "/delete-file/{file_id}"
    /\ pc' = "done"
    /\ UNCHANGED <<secret, request, payload, verified, idx, downloads, log, gpsVars>>

RestoreFileResponse(ok) ==
    IF ok THEN Json200("File restored successfully") ELSE Json200("Error")

RestoreFile ==
    /\ pc = "idle"
    /\ \E ok \in BOOLEAN :
        /\ providerCalls' = providerCalls + 1
        /\ providerFailed' = ~ok
        /\ response' = RestoreFileResponse(ok)
    /\ route' = "/restore-file/{file_id}"
    /\ pc' = "done"
    /\ UNCHANGED <<secret, request, payload, verified, idx, downloads, log, gpsVars>>

\* the response is sent; the server waits for the next request
NextRequest ==
    /\ pc = "done"
    /\ pc' = "idle"
    /\ route' = "none"
    /\ request' = NoRequest
    /\ payload' = NotCalled
    /\ verified' = NotCalled
    /\ idx' = 0
    /\ downloads' = <<>>
    /\ log' = <<>>
    /\ providerCalls' = 0
    /\ providerFailed' = FALSE
    /\ response' = NoResponse
    /\ UNCHANGED <<secret, gpsVars>>

Next ==
    \/ WebhookVerify
    \/ WebhookNoEvents
    \/ WebhookEvent
    \/ WebhookReturn
    \/ UploadFile
    \/ DeleteFile
    \/ RestoreFile
    \/ NextRequest

Spec == Init /\ [][Next]_vars

(***************************************************************************)
(* SpecGps: get_lat_lon applied to a tag mapping                           *)
(***************************************************************************)
HttpIdle ==
    /\ secret = NoneStr
    /\ pc = "idle"
    /\ route = "none"
    /\ request = NoRequest
    /\ payload = NotCalled
    /\ verified = NotCalled
    /\ idx = 0
    /\ downloads = <<>>
    /\ log = <<>>
    /\ providerCalls = 0
    /\ providerFailed = FALSE
    /\ response = NoResponse

InitGps ==
    /\ HttpIdle
    /\ latlon = NotCalled
    /\ \/ \E hasMake \in BOOLEAN : exif_data = ExifWithout(hasMake)
       \/ \E lat \in Triples \cup {AbsentTriple}, latRef \in LatRefs \cup {AbsentRef},
             lon \in Triples \cup {AbsentTriple}, lonRef \in LonRefs \cup {AbsentRef},
             hasMake \in BOOLEAN :
             exif_data = ExifWith(GpsBlock(lat, latRef, lon, lonRef), hasMake)

CallGetLatLon ==
    /\ latlon = NotCalled
    /\ latlon' = GetLatLon(exif_data)
    /\ UNCHANGED <<exif_data, httpVars>>

NextGps == CallGetLatLon

SpecGps == InitGps /\ [][NextGps]_vars

(***************************************************************************)
(* Properties of get_lat_lon and convert_to_degrees (under SpecGps)        *)
(***************************************************************************)
Called == latlon # NotCalled
Returned == latlon.kind = "return"
NotFound == Returned /\ latlon.value = <<None, None>>
Neg(r) == <<0 - r[1], r[2]>>

\* 3600 * r = 3600*d + 60*m + s for the triple t = (d, m, s) of rationals:
\* the right-hand side is put over the common denominator of d, m and s, and
\* the factor 3600 is moved into the denominator
IsDecimalOf(r, t) ==
    LET den == t[1][2] * t[2][2] * t[3][2]
        arcsec == 3600 * t[1][1] * t[2][2] * t[3][2]
                  + 60 * t[2][1] * t[1][2] * t[3][2]
                  + t[3][1] * t[1][2] * t[2][2]
    IN  RatNorm(r) = RatNorm(<<arcsec, 3600 * den>>)

\* C4: a GPSInfo sub-block that lacks at least one of the four keys gives
\* the not-found result (None, None), and get_lat_lon does not raise.
C4_IncompleteIsNotFound ==
    (Called /\ HasGps(exif_data) /\ ~Complete(exif_data)) => NotFound

\* C6: on a complete sub-block the latitude is the converted value when
\* GPSLatitudeRef = "N" and its negation for every other reference; the
\* longitude likewise with "E"; either sign is decided by its own reference.
C6_HemisphereSign ==
    (Called /\ Complete(exif_data)) =>
        LET g == exif_data["GPSInfo"]
            lat0 == ConvertToDegrees(g["GPSLatitude"])
            lon0 == ConvertToDegrees(g["GPSLongitude"])
        IN  /\ Returned
            /\ latlon.value[1] = IF g["GPSLatitudeRef"] = "N" THEN lat0 ELSE Neg(lat0)
            /\ latlon.value[2] = IF g["GPSLongitudeRef"] = "E" THEN lon0 ELSE Neg(lon0)

\* a lowercase "n" negates the latitude while "E" leaves the longitude alone
C6_Witness ==
    /\ Called /\ Complete(exif_data) /\ Returned
    /\ exif_data["GPSInfo"]["GPSLatitudeRef"] = "n"
    /\ exif_data["GPSInfo"]["GPSLongitudeRef"] = "E"
    /\ latlon.value[1][1] < 0
    /\ latlon.value[2][1] > 0

\* C7: whenever get_lat_lon returns, both coordinates are present or both
\* are absent; without a GPSInfo key it returns (None, None).
C7_BothOrNeither ==
    /\ Returned => ((latlon.value[1] = None) <=> (latlon.value[2] = None))
    /\ (Called /\ ~HasGps(exif_data)) => NotFound

\* the empty tag mapping gives (None, None)
C7_Witness ==
    /\ Called /\ DOMAIN exif_data = {}
    /\ NotFound

\* C8: for a triple (d, m, s) the conversion is d + m/60 + s/3600, that is
\* 3600 * result = 3600*d + 60*m + s, on the latitude and on the longitude
\* path alike, so equal triples give equal magnitudes.
C8_DecimalDegrees ==
    (Called /\ Complete(exif_data)) =>
        LET g == exif_data["GPSInfo"]
            lat == latlon.value[1]
            lon == latlon.value[2]
        IN  /\ Returned
            /\ IsDecimalOf(<<Abs(lat[1]), lat[2]>>, g["GPSLatitude"])
            /\ IsDecimalOf(<<Abs(lon[1]), lon[2]>>, g["GPSLongitude"])
            /\ (g["GPSLatitude"] = g["GPSLongitude"])
                  => (Abs(lat[1]) = Abs(lon[1]) /\ lat[2] = lon[2])

\* 1 deg 1 min 1/100 sec on both paths: 360001/360000 deg = 1.0166694...
C8_Witness ==
    /\ Called /\ Complete(exif_data) /\ Returned
    /\ exif_data["GPSInfo"]["GPSLatitude"] = <<<<1, 1>>, <<1, 1>>, <<1, 100>>>>
    /\ exif_data["GPSInfo"]["GPSLongitude"] = <<<<1, 1>>, <<1, 1>>, <<1, 100>>>>
    /\ latlon.value[1] = <<366001, 360000>>
    /\ Abs(latlon.value[2][1]) = 366001

(***************************************************************************)
(* Properties of the HTTP handlers (under Spec)                            *)
(***************************************************************************)
InWebhook == route = "/webhook/box"
Done == pc = "done"
Parsed == payload.kind = "return"
VerifyCalled == verified # NotCalled
VerifiedTrue == verified.kind = "return" /\ verified.value
SignatureSupplied == request.signature # NoneStr

\* C1: no download unless verify_signature returned true for the request,
\* and a request whose supplied signature does not match is answered 401
\* with no download.
C1_VerifyThenDownload ==
    /\ downloads # <<>> => VerifiedTrue
    /\ (InWebhook /\ Done /\ Parsed /\ SignatureSupplied /\ ~VerifiedTrue)
          => (response = Http401 /\ downloads = <<>>)

\* C2: verify_signature returns true or false and never raises, so a
\* request that does not verify is always answered 401.
C2_VerifyIsTotal ==
    /\ verified.kind # "raise"
    /\ (InWebhook /\ Done /\ Parsed /\ ~VerifiedTrue) => response = Http401

EmptyEnvelopeBody == "{\"events\":[]}"

\* C3: a request signed, under the shared secret, over the exact bytes of its
\* body verifies; the body {"events":[]} so signed is answered with success
\* and no download.
C3_RawBodySignatureAccepted ==
    /\ (InWebhook /\ VerifyCalled /\ secret = SharedSecret
            /\ request.signature = HexDigest(SharedSecret, request.body))
          => VerifiedTrue
    /\ (InWebhook /\ Done /\ secret = SharedSecret
            /\ request.body = EmptyEnvelopeBody
            /\ request.signature = HexDigest(SharedSecret, EmptyEnvelopeBody))
          => (response = Json200("success") /\ downloads = <<>>)

\* C5: with the secret unset or empty, no payload and no supplied signature
\* makes verify_signature return true.
C5_NoSecretNeverVerifies ==
    (VerifyCalled /\ secret \in {NoneStr, ""}) => ~VerifiedTrue

ProviderRoutes == {"/upload-file/", "/delete-file/{file_id}", "/restore-file/{file_id}"}

\* C9: a failed provider call of upload, delete or restore comes back as a
\* failure status response, not as an exception leaving the handler, and a
\* request makes at most one provider call.
C9_ProviderFailureIsAResponse ==
    /\ (Done /\ route \in ProviderRoutes /\ providerFailed)
          => (~response.unhandled /\ response.body = "Error")
    /\ providerCalls <= 1

IsEvent(e) ==
    /\ Subscript(e, "event_type").kind = "return"
    /\ Subscript(e, "source").kind = "return"
    /\ Subscript(Subscript(e, "source").value, "id").kind = "return"

\* an envelope as the data model has it: a list of events, each with a type
\* and a source carrying a file id
IsEnvelope(pl) ==
    /\ Subscript(pl, "events").kind = "return"
    /\ \A i \in 1..Len(EventsOf(pl)) : IsEvent(EventsOf(pl)[i])

RECURSIVE UploadUrls(_)
UploadUrls(events) ==
    IF events = <<>> THEN <<>>
    ELSE LET e == events[1]
         IN  IF Subscript(e, "event_type").value.s = "UPLOAD"
             THEN <<"https://api.box.com/2.0/files/"
                      \o Subscript(Subscript(e, "source").value, "id").value.s
                      \o "/content">> \o UploadUrls(Tail(events))
             ELSE UploadUrls(Tail(events))

\* C10: for a verified envelope the downloads made so far are those of the
\* "UPLOAD" events iterated so far, one each and in order, every one of them
\* logged whether it failed or not, and the handler ends with success after
\* the last event.
C10_OneFetchPerUpload ==
    (InWebhook /\ VerifiedTrue /\ IsEnvelope(payload.value)) =>
        /\ downloads = UploadUrls(SubSeq(EventsOf(payload.value), 1, idx))
        /\ Len(log) = Len(downloads)
        /\ Done => (idx = Len(EventsOf(payload.value)) /\ response = Json200("success"))

\* "upload" (not acted on), then UPLOAD of file 2 whose download fails, then
\* UPLOAD of file 1 whose position is found: two downloads in order, success
C10_Witness ==
    /\ InWebhook /\ VerifiedTrue /\ Done /\ IsEnvelope(payload.value)
    /\ Len(EventsOf(payload.value)) = 3
    /\ Subscript(EventsOf(payload.value)[1], "event_type").value.s = "upload"
    /\ downloads = << "https://api.box.com/2.0/files/2/content",
                      "https://api.box.com/2.0/files/1/content" >>
    /\ log[1] = ErrorLine("ConnectionError")
    /\ log[2].msg = "Latitude, Longitude"
    /\ response = Json200("success")
====
